---- MODULE Spec2Model ----
(***************************************************************************)
(* FlipBot AI dashboard client (src/frontend/src/App.js): the component    *)
(* state held in React useState cells, the asynchronous handlers that      *)
(* issue backend requests, the continuations that run when a request       *)
(* resolves, and the timers that clear the scraping status message.        *)
(*                                                                         *)
(* A handler runs on the single UI thread up to its first await; the code  *)
(* after the await (try-rest / catch / finally) runs as one continuation   *)
(* when the request resolves.  Each of the two is one action.              *)
(***************************************************************************)
EXTENDS Integers, Sequences, FiniteSets, TLC

VARIABLES
    vehicles,         \* useState([])     : list shown (before sort/filter)
    trending,         \* useState([])
    stats,            \* useState({})
    availableSources, \* useState({})
    searchQuery,      \* useState("")     : sequence of characters
    filters,          \* useState({zipCode, distance, priceMax, yearMin, minProfit})
    loading,          \* useState(false)
    scrapingStatus,   \* useState(null)   : Null or <<message>>
    scrapingLoading,  \* useState(false)
    sortBy,           \* useState("flip_score")
    sortOrder,        \* useState("desc")
    savedVehicles,    \* useState(new Set())  : the ids in insertion order
    storage,          \* localStorage['savedVehicles'] : Null or <<JSON text>>
    savedHistory,     \* history: the saved set before the last toggles and the last reload
    mounted,          \* the mount effects have run
    requests,         \* requests in flight, each awaited by one continuation
    timers,           \* pending setTimeout callbacks, counted per delay
    nextId,           \* issue number of the next request
    started,          \* how many requests the user has started
    applied,          \* history: the last successful list response to arrive
    race,             \* history: requests in flight that raced an applied one
    called,           \* history: the list as it was when each deals load, search or scrape in flight was issued
    outcome           \* history: whether the deals load or search that resolved last succeeded

dataVars == <<vehicles, trending, stats, availableSources>>
inputVars == <<searchQuery, filters>>
flagVars == <<loading, scrapingStatus, scrapingLoading>>
viewVars == <<sortBy, sortOrder, savedVehicles, storage, savedHistory>>
histVars == <<applied, race, outcome>>
netVars == <<requests, timers, nextId, started, called, histVars>>
vars == <<dataVars, inputVars, flagVars, viewVars, mounted, netVars>>

-----------------------------------------------------------------------------
(* Bounds *)

\* requests the user may start (the loads a handler issues by itself, at
\* mount and after a status update, are not counted)
MaxUserRequests == 2

\* pending timers of the "Under $50K" pill
MaxRefreshTimers == 1

-----------------------------------------------------------------------------
(* JavaScript values *)

\* null / undefined / an absent field
Null == <<>>
Some(x) == <<x>>
IsNull(m) == m = Null
Val(m) == m[1]

\* the string helpers work on sequences of one-character strings
Whitespace == {" "}

RECURSIVE TrimStart(_)
TrimStart(s) ==
    IF s = <<>> THEN <<>>
    ELSE IF Head(s) \in Whitespace THEN TrimStart(Tail(s)) ELSE s

RECURSIVE TrimEnd(_)
TrimEnd(s) ==
    IF s = <<>> THEN <<>>
    ELSE IF s[Len(s)] \in Whitespace THEN TrimEnd(SubSeq(s, 1, Len(s) - 1)) ELSE s

\* String.prototype.trim
Trim(s) == TrimEnd(TrimStart(s))

\* variant: !searchQuery, without the trim
EmptyQuery(q) == q = <<>>

\* !searchQuery.trim()
BlankQuery(q) == Trim(q) = <<>>

\* encodeURIComponent: letters, digits and - _ . ! ~ * ' ( ) pass, every
\* other character becomes its %XX escape
EscapeChar(c) ==
    CASE c = " " -> <<"%", "2", "0">>
      [] c = "&" -> <<"%", "2", "6">>
      [] c = "=" -> <<"%", "3", "D">>
      [] OTHER   -> <<c>>

RECURSIVE EncodeURIComponent(_)
EncodeURIComponent(s) ==
    IF s = <<>> THEN <<>>
    ELSE EscapeChar(Head(s)) \o EncodeURIComponent(Tail(s))

\* JavaScript truthiness of a string-valued field: null, undefined and ""
\* are falsy
Falsy(m) == IsNull(m) \/ Val(m) = ""

\* a || d
OrElse(m, d) == IF Falsy(m) THEN d ELSE Val(m)

\* Number.prototype.toFixed(1) of a duration given in hundredths of a
\* second: the value in tenths, rounded half up
ToFixed1(hundredths) == (hundredths + 5) \div 10

Digits == <<"0", "1", "2", "3", "4", "5", "6", "7", "8", "9">>

IsDigit(c) == \E d \in 1..10 : Digits[d] = c

DigitValue(c) == (CHOOSE d \in 1..10 : Digits[d] = c) - 1

\* the decimal text of a natural number
RECURSIVE NumberToString(_)
NumberToString(n) ==
    IF n < 10 THEN <<Digits[n + 1]>>
    ELSE NumberToString(n \div 10) \o <<Digits[(n % 10) + 1]>>

\* the number a text of digits denotes
RECURSIVE StringToNumber(_)
StringToNumber(s) ==
    IF s = <<>> THEN 0
    ELSE 10 * StringToNumber(SubSeq(s, 1, Len(s) - 1)) + DigitValue(s[Len(s)])

\* the longest run of digits a text starts with
RECURSIVE LeadingDigits(_)
LeadingDigits(s) ==
    IF s = <<>> \/ ~IsDigit(Head(s)) THEN <<>>
    ELSE <<Head(s)>> \o LeadingDigits(Tail(s))

\* parseInt(s): the number the leading digits of s denote, NaN (Null) when
\* s starts with none
ParseInt(s) ==
    IF LeadingDigits(s) = <<>> THEN Null ELSE Some(StringToNumber(LeadingDigits(s)))

\* parseFloat(s), for the text of a whole number
ParseFloat(s) == ParseInt(s)

\* a > b and a < b where a is a field that may be missing and b a parsed
\* number: a comparison with undefined or with NaN is false
GreaterThan(a, b) == ~IsNull(a) /\ ~IsNull(b) /\ Val(a) > Val(b)
LessThan(a, b) == ~IsNull(a) /\ ~IsNull(b) /\ Val(a) < Val(b)

\* a || 0 for a numeric field
OrZero(a) == IF IsNull(a) THEN 0 ELSE Val(a)

RECURSIVE Join(_, _)
Join(parts, sep) ==
    IF parts = <<>> THEN <<>>
    ELSE IF Len(parts) = 1 THEN parts[1]
    ELSE parts[1] \o sep \o Join(Tail(parts), sep)

RECURSIVE Split(_, _)
Split(s, c) ==
    IF \A i \in 1..Len(s) : s[i] # c THEN <<s>>
    ELSE LET k == CHOOSE i \in 1..Len(s) : s[i] = c /\ \A j \in 1..(i - 1) : s[j] # c
         IN  <<SubSeq(s, 1, k - 1)>> \o Split(SubSeq(s, k + 1, Len(s)), c)

\* JSON.stringify of an array of numeric ids: "[1,12]"
JSONStringify(arr) ==
    <<"[">> \o Join([i \in 1..Len(arr) |-> NumberToString(arr[i])], <<",">>) \o <<"]">>

\* JSON.parse of such a text
JSONParse(text) ==
    LET inner == SubSeq(text, 2, Len(text) - 1)
        parts == IF inner = <<>> THEN <<>> ELSE Split(inner, ",")
    IN  [i \in 1..Len(parts) |-> StringToNumber(parts[i])]

\* Set.prototype.has
Has(set, x) == \E i \in 1..Len(set) : set[i] = x

\* new Set(arr): the elements of arr in order, each once
RECURSIVE NewSet(_)
NewSet(arr) ==
    IF arr = <<>> THEN <<>>
    ELSE LET init == NewSet(SubSeq(arr, 1, Len(arr) - 1))
         IN  IF Has(init, arr[Len(arr)]) THEN init ELSE Append(init, arr[Len(arr)])

\* Set.prototype.delete
Delete(set, x) == SelectSeq(set, LAMBDA y : y # x)

\* the membership of a Set
Members(set) == { set[i] : i \in 1..Len(set) }

-----------------------------------------------------------------------------
(* Vehicles and backend payloads *)

Vehicle(id, year, mileage, price, profit, roi, score, seller, source, status) ==
    [id |-> id, year |-> year, mileage |-> mileage, asking_price |-> price,
     est_profit |-> profit, roi_percent |-> roi, flip_score |-> score,
     seller_type |-> seller, source |-> source, status |-> status]

\* stored vehicles, as the deals and search endpoints return them
D1 == Vehicle(1, 2018, Some(42000), Some(30000), Some(4000), Some(13), Some(7),
              Some("dealer"), Some("cars.com"), Some("new"))
D2 == Vehicle(2, 2012, Some(88000), Some(55000), Some(9000), Some(16), Some(9),
              Some("private"), Some("craigslist"), Some("watching"))
D3 == Vehicle(3, 2016, Null, Some(20000), Null, Null, Some(4),
              Some("dealer"), Some("autotrader"), Null)

\* a stored vehicle without an asking price or a score, which is estimated
\* to sell at a loss
D4 == Vehicle(4, 2016, Some(42000), Null, Some(-1500), Some(-5), Null,
              Some("dealer"), Some("autotrader"), Some("new"))

\* live listings, as a scrape endpoint returns them before normalisation
S1 == Vehicle(11, 2019, Some(15000), Some(41000), Some(2500), Some(6), Some(5),
              Null, Null, Null)
S2 == Vehicle(12, 2009, Null, Some(18000), Null, Null, Null,
              Some("dealer"), Some("cargurus"), Some("contacted"))

DealsPayloads == {<<>>, <<D1, D2>>}
SearchPayloads == {<<>>, <<D3>>}
TrendingPayloads == {<<[make_model |-> "BMW M3", total_listings |-> 12]>>}
StatsPayloads == {[deal_opportunities |-> 5, total_vehicles |-> 20]}
SourcesPayloads == {[total_sources |-> 22]}

ScrapeKinds == {"quick", "comprehensive", "enthusiast", "private"}

\* { vehicles_found, duration, vehicles[], source_results? }; the
\* comprehensive endpoint always reports source_results
ScrapeData(found, list, platforms) ==
    [vehicles_found |-> found, duration |-> 126, vehicles |-> list,
     source_results |-> platforms]

ScrapePayloads(kind) ==
    LET sr == IF kind = "comprehensive" THEN {Some(3)} ELSE {Null}
    IN  { ScrapeData(0, Null, p) : p \in sr }
        \cup { ScrapeData(0, Some(<<>>), p) : p \in sr }
        \cup { ScrapeData(2, Some(<<S1, S2>>), p) : p \in sr }

-----------------------------------------------------------------------------
(* Requests *)

\* the mount effect calls four loaders
MountRequests == 4

\* "limit=20"
DealsQuery == <<"l", "i", "m", "i", "t", "=", "2", "0">>

Request(id, op, method, path, query, params, vid, body) ==
    [id |-> id, op |-> op, method |-> method, path |-> path, query |-> query,
     params |-> params, vid |-> vid, body |-> body]

\* axios.get(`${API}/deals?limit=20`)
DealsRequest(id) ==
    Request(id, "loadDeals", "GET", "/deals", DealsQuery, Null, 0, Null)

\* axios.get(`${API}/trending`)
TrendingRequest(id) ==
    Request(id, "loadTrending", "GET", "/trending", <<>>, Null, 0, Null)

\* axios.get(`${API}/stats`)
StatsRequest(id) ==
    Request(id, "loadStats", "GET", "/stats", <<>>, Null, 0, Null)

\* axios.get(`${API}/scrape/sources`)
SourcesRequest(id) ==
    Request(id, "loadAvailableSources", "GET", "/scrape/sources", <<>>, Null, 0, Null)

\* if (filters.X) url += `&name=${filters.X}`
UrlPart(name, value) ==
    IF value = <<>> THEN <<>> ELSE <<"&">> \o name \o <<"=">> \o value

\* the query string handleSearch builds after "/search?"
SearchQueryString(q, f) ==
    <<"q", "=">> \o EncodeURIComponent(q)
    \o UrlPart(<<"z", "i", "p", "_", "c", "o", "d", "e">>, f.zipCode)
    \o UrlPart(<<"d", "i", "s", "t", "a", "n", "c", "e">>, f.distance)
    \o UrlPart(<<"p", "r", "i", "c", "e", "_", "m", "a", "x">>, f.priceMax)
    \o UrlPart(<<"y", "e", "a", "r", "_", "m", "i", "n">>, f.yearMin)

SearchRequest(id, q, f) ==
    Request(id, "search", "GET", "/search", SearchQueryString(q, f), Null, 0, Null)

\* axios.put(`${API}/vehicles/${vehicleId}`, { status })
UpdateRequest(id, vehicleId, status) ==
    Request(id, "updateVehicleStatus", "PUT", "/vehicles", <<>>, Null,
            vehicleId, Some([status |-> status]))

ScrapePath(kind) ==
    CASE kind = "quick"         -> "/scrape/quick"
      [] kind = "comprehensive" -> "/scrape/comprehensive"
      [] kind = "enthusiast"    -> "/scrape/enthusiast"
      [] kind = "private"       -> "/scrape/private-party"

ScrapeMaxResults(kind) ==
    CASE kind = "quick"         -> 15
      [] kind = "comprehensive" -> 20
      [] kind = "enthusiast"    -> 15
      [] kind = "private"       -> 25

\* params: { query, location: filters.zipCode || "", max_results }; the
\* enthusiast scrape sends no location
ScrapeParams(kind, q, f) ==
    [query |-> q,
     location |-> IF kind = "enthusiast" THEN Null ELSE Some(f.zipCode),
     max_results |-> ScrapeMaxResults(kind)]

ScrapeRequest(id, kind, q, f) ==
    Request(id, kind, "POST", ScrapePath(kind), <<>>, Some(ScrapeParams(kind, q, f)),
            0, Null)

ListOps == {"loadDeals", "search"} \cup ScrapeKinds

InFlight(ops) == { r \in requests : r.op \in ops }

\* the user may start one more request within the bound
CanStart == started < MaxUserRequests

-----------------------------------------------------------------------------
(* Status messages and scrape normalisation *)

Message(text, found, platforms, tenths) ==
    [text |-> text, found |-> found, platforms |-> platforms, tenths |-> tenths]

ProgressMessage(kind) ==
    CASE kind = "quick"         -> Message("Scraping live listings...", 0, 0, 0)
      [] kind = "comprehensive" -> Message("Scraping across all major platforms...", 0, 0, 0)
      [] kind = "enthusiast"    -> Message("Scraping auction and enthusiast platforms...", 0, 0, 0)
      [] kind = "private"       -> Message("Scraping private party listings...", 0, 0, 0)

FoundMessage(kind, data) ==
    CASE kind = "quick" ->
            Message("Found N live vehicles in Ts", data.vehicles_found, 0,
                    ToFixed1(data.duration))
      [] kind = "comprehensive" ->
            Message("Found N vehicles across P platforms in Ts", data.vehicles_found,
                    Val(data.source_results), ToFixed1(data.duration))
      [] kind = "enthusiast" ->
            Message("Found N vehicles on auction platforms in Ts", data.vehicles_found, 0,
                    ToFixed1(data.duration))
      [] kind = "private" ->
            Message("Found N private party vehicles in Ts", data.vehicles_found, 0,
                    ToFixed1(data.duration))

FailureMessage(kind) ==
    CASE kind = "quick"         -> Message("Scraping failed. Please try again.", 0, 0, 0)
      [] kind = "comprehensive" -> Message("Comprehensive scraping failed. Please try again.", 0, 0, 0)
      [] kind = "enthusiast"    -> Message("Enthusiast scraping failed. Please try again.", 0, 0, 0)
      [] kind = "private"       -> Message("Private party scraping failed. Please try again.", 0, 0, 0)

\* Object.keys(undefined) throws a TypeError, which the handler's catch takes
ScrapeThrows(kind, data) ==
    kind = "comprehensive" /\ IsNull(data.source_results)

\* variant: every handler fills in 'unknown'
DefaultSellerTypeUnknown(kind) == "unknown"

DefaultSellerType(kind) ==
    CASE kind = "quick"         -> "unknown"
      [] kind = "comprehensive" -> "unknown"
      [] kind = "enthusiast"    -> "auction"
      [] kind = "private"       -> "private"

\* v => ({...v, seller_type: v.seller_type || d, source: v.source || 'unknown',
\*        status: v.status || 'new'})
Normalize(kind, v) ==
    [v EXCEPT !.seller_type = Some(OrElse(@, DefaultSellerType(kind))),
              !.source = Some(OrElse(@, "unknown")),
              !.status = Some(OrElse(@, "new"))]

\* the list a scrape handler passes to setVehicles
ScrapedVehicles(kind, list) ==
    IF ~IsNull(list) /\ Len(Val(list)) > 0
    THEN [i \in 1..Len(Val(list)) |-> Normalize(kind, Val(list)[i])]
    ELSE <<>>

QuickClearDelay == 5000
LongClearDelay == 8000
Delays == {QuickClearDelay, LongClearDelay}

\* the delay of the timer the "Under $50K" pill sets
RefreshDelay == 10
TimerDelays == Delays \cup {RefreshDelay}

ClearDelay(kind) == IF kind = "quick" THEN QuickClearDelay ELSE LongClearDelay

-----------------------------------------------------------------------------
(* Initial state: the first render, before the mount effects *)

NoFilters ==
    [zipCode |-> <<>>, distance |-> <<>>, priceMax |-> <<>>, yearMin |-> <<>>,
     minProfit |-> <<>>]

NoRace == [overlapped |-> {}, overtaken |-> {}]

NoSavedHistory == [toggle |-> Null, reload |-> Null]

Init ==
    /\ vehicles = <<>>
    /\ trending = <<>>
    /\ stats = [deal_opportunities |-> 0, total_vehicles |-> 0]
    /\ availableSources = [total_sources |-> 0]
    /\ searchQuery = <<>>
    /\ filters = NoFilters
    /\ loading = FALSE
    /\ scrapingStatus = Null
    /\ scrapingLoading = FALSE
    /\ sortBy = "flip_score"
    /\ sortOrder = "desc"
    /\ savedVehicles = <<>>
    /\ storage = Null
    /\ savedHistory = NoSavedHistory
    /\ mounted = FALSE
    /\ requests = {}
    /\ timers = [d \in TimerDelays |-> 0]
    /\ nextId = 1
    /\ started = 0
    /\ called = {}
    /\ applied = Null
    /\ race = NoRace
    /\ outcome = Null

-----------------------------------------------------------------------------
(* History *)

\* The response to r has arrived and `result` is the list it carries (for
\* a scrape, after normalisation).  Every list-replacing request still in
\* flight has now overlapped an applied one, and those issued before r
\* have been overtaken by it.
RecordApplied(r, result) ==
    /\ applied' = Some([result |-> result, before |-> [i \in 1..Len(vehicles) |-> vehicles[i].id],
                        overlapped |-> r.id \in race.overlapped,
                        overtaken |-> r.id \in race.overtaken])
    /\ race' = [overlapped |-> { o.id : o \in InFlight(ListOps) \ {r} },
                overtaken |-> (race.overtaken \ {r.id})
                              \cup { o.id : o \in { x \in InFlight(ListOps) : x.id < r.id } }]

\* r has resolved without replacing the list
RecordDropped(r) ==
    /\ applied' = applied
    /\ race' = [overlapped |-> race.overlapped \ {r.id},
                overtaken |-> race.overtaken \ {r.id}]

\* a deals load, search or scrape is issued under the next id
RecordCall(rest) == called' = rest \cup {[id |-> nextId, list |-> vehicles]}

\* the entry of `called` for r is dropped when r resolves
Uncalled(r) == { c \in called : c.id # r.id }

\* the list as it was when r was issued
ListAtCall(r) == (CHOOSE c \in called : c.id = r.id).list

RecordOutcome(r, ok) == outcome' = Some(ok)

-----------------------------------------------------------------------------
(* Saved vehicles *)

\* the ids the text under the 'savedVehicles' key holds
StoredIds(stored) == IF IsNull(stored) THEN {} ELSE Members(JSONParse(Val(stored)))

\* vehicleId is toggled: the state before this toggle, and the state before
\* the toggle that preceded it when that one was of the same id
RecordToggle(vehicleId) ==
    savedHistory' =
        [toggle |->
            Some([id |-> vehicleId,
                  prev |-> IF ~IsNull(savedHistory.toggle)
                              /\ Val(savedHistory.toggle).id = vehicleId
                           THEN Some(Val(savedHistory.toggle).last)
                           ELSE Null,
                  last |-> [saved |-> Members(savedVehicles),
                            stored |-> StoredIds(storage)]]),
         reload |-> Null]

\* the page is reloaded with this saved set in memory
RecordReload ==
    savedHistory' = [toggle |-> Null, reload |-> Some(Members(savedVehicles))]

\* variant: the effect does not read the stored ids
LoadSavedNothing(stored, saved) == saved

\* the saved-vehicles effect: getItem, and if (saved) new Set(JSON.parse(saved))
LoadSaved(stored, saved) ==
    IF ~IsNull(stored) /\ Val(stored) # <<>> THEN NewSet(JSONParse(Val(stored))) ELSE saved

\* variant: the id is added whether or not it is in the set
NewSavedAlwaysAdds(saved, vehicleId) ==
    IF Has(saved, vehicleId) THEN saved ELSE Append(saved, vehicleId)

\* newSaved: a copy of the set with vehicleId deleted if present, added if not
NewSaved(saved, vehicleId) ==
    IF Has(saved, vehicleId) THEN Delete(saved, vehicleId) ELSE Append(saved, vehicleId)

\* variant: the set as it was before the toggle is persisted
SetItemStale(saved, newSaved) == Some(JSONStringify(saved))

\* localStorage.setItem('savedVehicles', JSON.stringify([...newSaved]))
SetItem(saved, newSaved) == Some(JSONStringify(newSaved))

\* variant: the toggle is also sent to the backend
ToggleSaveVehicleSynced(vehicleId) ==
    /\ mounted
    /\ \E i \in 1..Len(vehicles) : vehicles[i].id = vehicleId
    /\ savedVehicles' = NewSaved(savedVehicles, vehicleId)
    /\ storage' = SetItem(savedVehicles, NewSaved(savedVehicles, vehicleId))
    /\ RecordToggle(vehicleId)
    /\ requests' = requests \cup {UpdateRequest(nextId, vehicleId, "saved")}
    /\ nextId' = nextId + 1
    /\ UNCHANGED <<dataVars, inputVars, flagVars, sortBy, sortOrder, mounted, timers,
                   started, called, histVars>>

\* the save button of a vehicle card
ToggleSaveVehicle(vehicleId) ==
    /\ mounted
    /\ \E i \in 1..Len(vehicles) : vehicles[i].id = vehicleId
    /\ savedVehicles' = NewSaved(savedVehicles, vehicleId)
    /\ storage' = SetItem(savedVehicles, NewSaved(savedVehicles, vehicleId))
    /\ RecordToggle(vehicleId)
    /\ UNCHANGED <<dataVars, inputVars, flagVars, sortBy, sortOrder, mounted, netVars>>

\* the page is reloaded: the component starts again from its initial
\* state, the requests and timers of the old page are gone, local storage
\* stays
Reload ==
    /\ mounted
    /\ mounted' = FALSE
    /\ vehicles' = <<>>
    /\ trending' = <<>>
    /\ stats' = [deal_opportunities |-> 0, total_vehicles |-> 0]
    /\ availableSources' = [total_sources |-> 0]
    /\ searchQuery' = <<>>
    /\ filters' = NoFilters
    /\ loading' = FALSE
    /\ scrapingStatus' = Null
    /\ scrapingLoading' = FALSE
    /\ sortBy' = "flip_score"
    /\ sortOrder' = "desc"
    /\ savedVehicles' = <<>>
    /\ requests' = {}
    /\ timers' = [d \in TimerDelays |-> 0]
    /\ nextId' = 1
    /\ called' = {}
    /\ applied' = Null
    /\ race' = NoRace
    /\ outcome' = Null
    /\ RecordReload
    /\ UNCHANGED <<storage, started>>

-----------------------------------------------------------------------------
(* Deals, search, trending, stats, sources *)

\* loadDeals up to its await: setLoading(true); axios.get(...)
\* rest: the requests that stay in flight
StartLoadDeals(rest) ==
    /\ loading' = TRUE
    /\ requests' = rest \cup {DealsRequest(nextId)}
    /\ nextId' = nextId + 1

\* the two mount effects: the four loaders, then the saved ids from
\* local storage
Mount ==
    /\ ~mounted
    /\ mounted' = TRUE
    /\ loading' = TRUE
    /\ requests' = requests \cup {DealsRequest(nextId), TrendingRequest(nextId + 1),
                                  StatsRequest(nextId + 2), SourcesRequest(nextId + 3)}
    /\ nextId' = nextId + MountRequests
    /\ RecordCall(called)
    /\ savedVehicles' = LoadSaved(storage, savedVehicles)
    /\ UNCHANGED <<dataVars, inputVars, scrapingStatus, scrapingLoading, sortBy,
                   sortOrder, storage, savedHistory, timers, started, histVars>>

\* the "Refresh Data" button
LoadDeals ==
    /\ mounted
    /\ CanStart
    /\ started' = started + 1
    /\ StartLoadDeals(requests)
    /\ RecordCall(called)
    /\ UNCHANGED <<dataVars, inputVars, scrapingStatus, scrapingLoading, viewVars,
                   mounted, timers, histVars>>

\* variant: a response that a later-issued request has overtaken is dropped
SetVehiclesIfNewest(r, list) ==
    vehicles' = IF r.id \in race.overtaken THEN vehicles ELSE list

\* variant: the response is appended to the list instead of replacing it
SetVehiclesMerged(r, list) == vehicles' = vehicles \o list

\* setVehicles(list) in the continuation of r
SetVehicles(r, list) == vehicles' = list

\* try-rest of loadDeals and of handleSearch: setVehicles(response.data)
LoadSuccess(r, data) ==
    /\ SetVehicles(r, data)
    /\ RecordApplied(r, data)

\* variant: the catch clears the list
LoadFailureClears(r) ==
    /\ vehicles' = <<>>
    /\ RecordDropped(r)

\* catch of loadDeals and of handleSearch: console.error only
LoadFailure(r) ==
    /\ UNCHANGED vehicles
    /\ RecordDropped(r)

\* variant: setLoading(false) at the end of the try block, not in finally
LoadFinallyOnSuccess(r, ok) == loading' = IF ok THEN FALSE ELSE loading

\* finally of loadDeals and of handleSearch
LoadFinally(r, ok) == loading' = FALSE

\* loadDeals after its await: try-rest or catch, then finally
LoadDealsResolve(r, ok, data) ==
    /\ r \in requests
    /\ r.op = "loadDeals"
    /\ requests' = requests \ {r}
    /\ IF ok THEN LoadSuccess(r, data) ELSE LoadFailure(r)
    /\ LoadFinally(r, ok)
    /\ called' = Uncalled(r)
    /\ RecordOutcome(r, ok)
    /\ UNCHANGED <<trending, stats, availableSources, inputVars, scrapingStatus,
                   scrapingLoading, viewVars, mounted, timers, nextId, started>>

\* the search button and Enter in the search box
HandleSearch ==
    /\ mounted
    /\ CanStart
    /\ started' = started + 1
    /\ IF BlankQuery(searchQuery)
       THEN StartLoadDeals(requests)
       ELSE /\ loading' = TRUE
            /\ requests' = requests \cup {SearchRequest(nextId, searchQuery, filters)}
            /\ nextId' = nextId + 1
    /\ RecordCall(called)
    /\ UNCHANGED <<dataVars, inputVars, scrapingStatus, scrapingLoading, viewVars,
                   mounted, timers, histVars>>

\* handleSearch after its await
HandleSearchResolve(r, ok, data) ==
    /\ r \in requests
    /\ r.op = "search"
    /\ requests' = requests \ {r}
    /\ IF ok THEN LoadSuccess(r, data) ELSE LoadFailure(r)
    /\ LoadFinally(r, ok)
    /\ called' = Uncalled(r)
    /\ RecordOutcome(r, ok)
    /\ UNCHANGED <<trending, stats, availableSources, inputVars, scrapingStatus,
                   scrapingLoading, viewVars, mounted, timers, nextId, started>>

\* loadTrending after its await
LoadTrendingResolve(r, ok, data) ==
    /\ r \in requests
    /\ r.op = "loadTrending"
    /\ requests' = requests \ {r}
    /\ trending' = IF ok THEN data ELSE trending
    /\ UNCHANGED <<vehicles, stats, availableSources, inputVars, flagVars, viewVars,
                   mounted, timers, nextId, started, called, histVars>>

\* loadStats after its await
LoadStatsResolve(r, ok, data) ==
    /\ r \in requests
    /\ r.op = "loadStats"
    /\ requests' = requests \ {r}
    /\ stats' = IF ok THEN data ELSE stats
    /\ UNCHANGED <<vehicles, trending, availableSources, inputVars, flagVars, viewVars,
                   mounted, timers, nextId, started, called, histVars>>

\* loadAvailableSources after its await
LoadAvailableSourcesResolve(r, ok, data) ==
    /\ r \in requests
    /\ r.op = "loadAvailableSources"
    /\ requests' = requests \ {r}
    /\ availableSources' = IF ok THEN data ELSE availableSources
    /\ UNCHANGED <<vehicles, trending, stats, inputVars, flagVars, viewVars,
                   mounted, timers, nextId, started, called, histVars>>

-----------------------------------------------------------------------------
(* Status update *)

StatusButtons == {"watching", "contacted"}

\* variant: the handler also writes the new status into the local list
UpdateVehicleStatusOptimistic(vehicleId, status) ==
    /\ mounted
    /\ CanStart
    /\ started' = started + 1
    /\ \E i \in 1..Len(vehicles) : vehicles[i].id = vehicleId
    /\ vehicles' = [i \in 1..Len(vehicles) |->
                       IF vehicles[i].id = vehicleId
                       THEN [vehicles[i] EXCEPT !.status = Some(status)]
                       ELSE vehicles[i]]
    /\ requests' = requests \cup {UpdateRequest(nextId, vehicleId, status)}
    /\ nextId' = nextId + 1
    /\ UNCHANGED <<trending, stats, availableSources, inputVars, flagVars, viewVars,
                   mounted, timers, called, histVars>>

\* the cards' Watch and Contact buttons
UpdateVehicleStatus(vehicleId, status) ==
    /\ mounted
    /\ CanStart
    /\ started' = started + 1
    /\ \E i \in 1..Len(vehicles) : vehicles[i].id = vehicleId
    /\ requests' = requests \cup {UpdateRequest(nextId, vehicleId, status)}
    /\ nextId' = nextId + 1
    /\ UNCHANGED <<dataVars, inputVars, flagVars, viewVars, mounted, timers, called,
                   histVars>>

\* variant: the handler without its loadDeals() call
UpdateVehicleStatusResolveQuiet(r, ok) ==
    /\ r \in requests
    /\ r.op = "updateVehicleStatus"
    /\ requests' = requests \ {r}
    /\ UNCHANGED <<loading, nextId, called>>
    /\ UNCHANGED <<dataVars, inputVars, scrapingStatus, scrapingLoading, viewVars,
                   mounted, timers, started, histVars>>

\* updateVehicleStatus after its await: loadDeals() on success
UpdateVehicleStatusResolve(r, ok) ==
    /\ r \in requests
    /\ r.op = "updateVehicleStatus"
    /\ IF ok
       THEN /\ StartLoadDeals(requests \ {r})
            /\ RecordCall(called)
       ELSE /\ requests' = requests \ {r}
            /\ UNCHANGED <<loading, nextId, called>>
    /\ UNCHANGED <<dataVars, inputVars, scrapingStatus, scrapingLoading, viewVars,
                   mounted, timers, started, histVars>>

-----------------------------------------------------------------------------
(* Scrapes *)

\* variant: no scrape button is ever disabled
ScrapeButtonAlwaysEnabled(kind) == TRUE

\* disabled={scrapingLoading || !searchQuery.trim()}; the "All Sources"
\* button that calls handleScrapeComprehensive has no disabled attribute
ScrapeButtonEnabled(kind) ==
    kind = "comprehensive" \/ (~scrapingLoading /\ ~BlankQuery(searchQuery))

\* variant: the handler raises the loading flag instead of scrapingLoading
ScrapeStartSetsLoading(kind) ==
    /\ mounted
    /\ ScrapeButtonEnabled(kind)
    /\ IF BlankQuery(searchQuery)
       THEN UNCHANGED <<loading, scrapingStatus, requests, nextId, started, called>>
       ELSE /\ CanStart
            /\ started' = started + 1
            /\ loading' = TRUE
            /\ scrapingStatus' = Some(ProgressMessage(kind))
            /\ requests' = requests \cup {ScrapeRequest(nextId, kind, searchQuery, filters)}
            /\ nextId' = nextId + 1
            /\ RecordCall(called)
    /\ UNCHANGED <<dataVars, inputVars, scrapingLoading, viewVars, mounted, timers,
                   histVars>>

\* variant: the handler without its test of the query
ScrapeStartAnyQuery(kind) ==
    /\ mounted
    /\ ScrapeButtonEnabled(kind)
    /\ CanStart
    /\ started' = started + 1
    /\ scrapingLoading' = TRUE
    /\ scrapingStatus' = Some(ProgressMessage(kind))
    /\ requests' = requests \cup {ScrapeRequest(nextId, kind, searchQuery, filters)}
    /\ nextId' = nextId + 1
    /\ RecordCall(called)
    /\ UNCHANGED <<dataVars, inputVars, loading, viewVars, mounted, timers, histVars>>

\* a scrape handler up to its await
ScrapeStart(kind) ==
    /\ mounted
    /\ ScrapeButtonEnabled(kind)
    /\ IF BlankQuery(searchQuery)
       THEN UNCHANGED <<scrapingLoading, scrapingStatus, requests, nextId, started,
                        called>>
       ELSE /\ CanStart
            /\ started' = started + 1
            /\ scrapingLoading' = TRUE
            /\ scrapingStatus' = Some(ProgressMessage(kind))
            /\ requests' = requests \cup {ScrapeRequest(nextId, kind, searchQuery, filters)}
            /\ nextId' = nextId + 1
            /\ RecordCall(called)
    /\ UNCHANGED <<dataVars, inputVars, loading, viewVars, mounted, timers, histVars>>

HandleScrape == ScrapeStart("quick")
HandleScrapeComprehensive == ScrapeStart("comprehensive")
HandleScrapeEnthusiast == ScrapeStart("enthusiast")
HandleScrapePrivateParty == ScrapeStart("private")

\* variant: a response without vehicles leaves the list as it is
ScrapeSuccessKeepsOnEmpty(r, data) ==
    /\ scrapingStatus' = Some(FoundMessage(r.op, data))
    /\ vehicles' = IF ScrapedVehicles(r.op, data.vehicles) = <<>>
                   THEN vehicles
                   ELSE ScrapedVehicles(r.op, data.vehicles)
    /\ RecordApplied(r, ScrapedVehicles(r.op, data.vehicles))

\* try-rest of a scrape handler: the found message, then the list
ScrapeSuccess(r, data) ==
    /\ scrapingStatus' = Some(FoundMessage(r.op, data))
    /\ SetVehicles(r, ScrapedVehicles(r.op, data.vehicles))
    /\ RecordApplied(r, ScrapedVehicles(r.op, data.vehicles))

\* variant: the catch clears the list
ScrapeFailureClears(r) ==
    /\ scrapingStatus' = Some(FailureMessage(r.op))
    /\ vehicles' = <<>>
    /\ RecordDropped(r)

\* catch of a scrape handler
ScrapeFailure(r) ==
    /\ scrapingStatus' = Some(FailureMessage(r.op))
    /\ UNCHANGED vehicles
    /\ RecordDropped(r)

\* variant: the clear is scheduled at the end of the try block, not in finally
ScrapeFinallyOnSuccess(r, ok) ==
    /\ scrapingLoading' = FALSE
    /\ timers' = IF ok THEN [timers EXCEPT ![ClearDelay(r.op)] = @ + 1] ELSE timers

\* finally of a scrape handler
ScrapeFinally(r, ok) ==
    /\ scrapingLoading' = FALSE
    /\ timers' = [timers EXCEPT ![ClearDelay(r.op)] = @ + 1]

\* a scrape handler after its await
ScrapeResolve(r, ok, data) ==
    /\ r \in requests
    /\ r.op \in ScrapeKinds
    /\ requests' = requests \ {r}
    /\ IF ok /\ ~ScrapeThrows(r.op, data) THEN ScrapeSuccess(r, data) ELSE ScrapeFailure(r)
    /\ ScrapeFinally(r, ok)
    /\ called' = Uncalled(r)
    /\ UNCHANGED <<trending, stats, availableSources, inputVars, loading, viewVars,
                   mounted, nextId, started, outcome>>

\* setTimeout(() => setScrapingStatus(null), delay) comes due
ClearStatusTimer(delay) ==
    /\ timers[delay] > 0
    /\ timers' = [timers EXCEPT ![delay] = @ - 1]
    /\ scrapingStatus' = Null
    /\ UNCHANGED <<dataVars, inputVars, loading, scrapingLoading, viewVars, mounted,
                   requests, nextId, started, called, histVars>>

-----------------------------------------------------------------------------
(* Inputs *)

Queries == {<<>>, <<" ">>, <<"m", " ", "3">>}

FilterNames == {"zipCode", "distance", "priceMax", "yearMin", "minProfit"}

\* what the user can put into each filter control: the zip code is a free
\* text box, the distance a select, the other three are number inputs
FilterValues(name) ==
    CASE name = "zipCode"   -> {<<>>, <<"9">>, <<"&", "y", "e", "a", "r", "_", "m", "i", "n", "=", "1">>}
      [] name = "distance"  -> {<<>>, <<"2", "5">>}
      [] name = "priceMax"  -> {<<>>, <<"5", "0", "0", "0", "0">>}
      [] name = "yearMin"   -> {<<>>, <<"2", "0", "1", "5">>}
      [] name = "minProfit" -> {<<>>, <<"3", "0", "0", "0">>}

\* onChange of the search box
SetSearchQuery(q) ==
    /\ mounted
    /\ searchQuery' = q
    /\ UNCHANGED <<dataVars, filters, flagVars, viewVars, mounted, netVars>>

\* onChange of a filter control: setFilters({...filters, name: value})
SetFilter(name, value) ==
    /\ mounted
    /\ filters' = [filters EXCEPT ![name] = value]
    /\ UNCHANGED <<dataVars, searchQuery, flagVars, viewVars, mounted, netVars>>

\* the options of the sort dropdown, each value `${field}-${order}` split at
\* its hyphen
SortOptions ==
    {<<"flip_score", "desc">>, <<"est_profit", "desc">>, <<"roi_percent", "desc">>,
     <<"asking_price", "asc">>, <<"asking_price", "desc">>, <<"year", "desc">>,
     <<"year", "asc">>, <<"mileage", "asc">>, <<"mileage", "desc">>}

\* the quick pills that sort: High Profit, High ROI, Low Mileage, Newest
SortPills ==
    {<<"est_profit", "desc">>, <<"roi_percent", "desc">>, <<"mileage", "asc">>,
     <<"year", "desc">>}

\* the sort control without its options: the field is a text column
SetSortByText(option) ==
    /\ mounted
    /\ sortBy' = "source"
    /\ sortOrder' = option[2]
    /\ UNCHANGED <<dataVars, inputVars, flagVars, savedVehicles, storage, savedHistory,
                   mounted, netVars>>

\* the sort control that also reloads the deals
SetSortReloads(option) ==
    /\ mounted
    /\ sortBy' = option[1]
    /\ sortOrder' = option[2]
    /\ requests' = requests \cup {DealsRequest(nextId)}
    /\ nextId' = nextId + 1
    /\ UNCHANGED <<dataVars, inputVars, flagVars, savedVehicles, storage, savedHistory,
                   mounted, timers, started, called, histVars>>

\* onChange of the sort dropdown and onClick of a sorting pill:
\* setSortBy(field); setSortOrder(order)
SetSort(option) ==
    /\ mounted
    /\ sortBy' = option[1]
    /\ sortOrder' = option[2]
    /\ UNCHANGED <<dataVars, inputVars, flagVars, savedVehicles, storage, savedHistory,
                   mounted, netVars>>

\* onClick of the "Under $50K" pill: setFilters({...filters, priceMax:
\* "50000"}); setTimeout(() => setFilters(prev => ({...prev})), 10)
UnderFiftyK ==
    /\ mounted
    /\ timers[RefreshDelay] < MaxRefreshTimers
    /\ filters' = [filters EXCEPT !.priceMax = <<"5", "0", "0", "0", "0">>]
    /\ timers' = [timers EXCEPT ![RefreshDelay] = @ + 1]
    /\ UNCHANGED <<dataVars, searchQuery, flagVars, viewVars, mounted, requests, nextId,
                   started, called, histVars>>

\* the pill's timer comes due: setFilters(prev => ({...prev}))
RefreshTimer ==
    /\ timers[RefreshDelay] > 0
    /\ timers' = [timers EXCEPT ![RefreshDelay] = @ - 1]
    /\ filters' = [name \in DOMAIN filters |-> filters[name]]
    /\ UNCHANGED <<dataVars, searchQuery, flagVars, viewVars, mounted, requests, nextId,
                   started, called, histVars>>

-----------------------------------------------------------------------------
(* The list shown *)

\* filters.priceMax && vehicle.asking_price > parseFloat(filters.priceMax)
ExceedsPriceMax(vehicle) ==
    /\ filters.priceMax # <<>>
    /\ GreaterThan(vehicle.asking_price, ParseFloat(filters.priceMax))

\* filters.yearMin && vehicle.year < parseInt(filters.yearMin)
BelowYearMin(vehicle) ==
    /\ filters.yearMin # <<>>
    /\ LessThan(Some(vehicle.year), ParseInt(filters.yearMin))

\* the profit test without its default: a missing est_profit is compared
\* as it is
BelowMinProfitRaw(vehicle) ==
    /\ filters.minProfit # <<>>
    /\ LessThan(vehicle.est_profit, ParseFloat(filters.minProfit))

\* filters.minProfit && (vehicle.est_profit || 0) < parseFloat(filters.minProfit)
BelowMinProfit(vehicle) ==
    /\ filters.minProfit # <<>>
    /\ LessThan(Some(OrZero(vehicle.est_profit)), ParseFloat(filters.minProfit))

\* vehicleList.filter(vehicle => ...): the vehicles no test rejects, in the
\* order of the list
filterVehicles(vehicleList) ==
    SelectSeq(vehicleList,
              LAMBDA vehicle : ~ExceedsPriceMax(vehicle) /\ ~BelowYearMin(vehicle)
                               /\ ~BelowMinProfit(vehicle))

NumericFields ==
    {"asking_price", "est_profit", "roi_percent", "flip_score", "year", "mileage"}

\* vehicle[field]: null or undefined (Null) when the vehicle has no such
\* field or no value in it
FieldOf(vehicle, field) ==
    IF field \notin DOMAIN vehicle THEN Null
    ELSE IF field \in {"id", "year"} THEN Some(vehicle[field])
    ELSE vehicle[field]

\* the comparator with the null tests as they are for a descending sort,
\* whatever the direction
CompareNullsLast(a, b, field, order) ==
    LET aVal == FieldOf(a, field)
        bVal == FieldOf(b, field)
    IN  IF IsNull(aVal) /\ IsNull(bVal) THEN 0
        ELSE IF IsNull(aVal) THEN 1
        ELSE IF IsNull(bVal) THEN -1
        ELSE IF field \notin NumericFields THEN 0
        ELSE IF order = "desc" THEN Val(bVal) - Val(aVal)
        ELSE Val(aVal) - Val(bVal)

\* the comparator with the null tests as they are for an ascending sort,
\* whatever the direction
CompareNullsFirst(a, b, field, order) ==
    LET aVal == FieldOf(a, field)
        bVal == FieldOf(b, field)
    IN  IF IsNull(aVal) /\ IsNull(bVal) THEN 0
        ELSE IF IsNull(aVal) THEN -1
        ELSE IF IsNull(bVal) THEN 1
        ELSE IF field \notin NumericFields THEN 0
        ELSE IF order = "desc" THEN Val(bVal) - Val(aVal)
        ELSE Val(aVal) - Val(bVal)

\* the comparator without its direction: always a - b
CompareAscending(a, b, field, order) ==
    LET aVal == FieldOf(a, field)
        bVal == FieldOf(b, field)
    IN  IF IsNull(aVal) /\ IsNull(bVal) THEN 0
        ELSE IF IsNull(aVal) THEN (IF order = "desc" THEN 1 ELSE -1)
        ELSE IF IsNull(bVal) THEN (IF order = "desc" THEN -1 ELSE 1)
        ELSE IF field \notin NumericFields THEN 0
        ELSE Val(aVal) - Val(bVal)

\* the comparator of sortVehicles, for sortBy = field and sortOrder = order.
\* The values of the numeric fields are numbers, which parseFloat(x) || 0
\* returns as they are; the other fields hold text that is no number, whose
\* difference is NaN, which sort takes as 0.
Compare(a, b, field, order) ==
    LET aVal == FieldOf(a, field)
        bVal == FieldOf(b, field)
    IN  IF IsNull(aVal) /\ IsNull(bVal) THEN 0
        ELSE IF IsNull(aVal) THEN (IF order = "desc" THEN 1 ELSE -1)
        ELSE IF IsNull(bVal) THEN (IF order = "desc" THEN -1 ELSE 1)
        ELSE IF field \notin NumericFields THEN 0
        ELSE IF order = "desc" THEN Val(bVal) - Val(aVal)
        ELSE Val(aVal) - Val(bVal)

\* [...vehicleList].sort(comparator): Array.prototype.sort is stable, so
\* each vehicle goes after the last one that does not compare above it
RECURSIVE Sort(_, _, _)
Sort(vehicleList, field, order) ==
    IF vehicleList = <<>> THEN <<>>
    ELSE LET n == Len(vehicleList)
             last == vehicleList[n]
             init == Sort(SubSeq(vehicleList, 1, n - 1), field, order)
             k == IF \E i \in 1..Len(init) : Compare(init[i], last, field, order) <= 0
                  THEN CHOOSE i \in 1..Len(init) :
                          /\ Compare(init[i], last, field, order) <= 0
                          /\ \A j \in (i + 1)..Len(init) :
                                 Compare(init[j], last, field, order) > 0
                  ELSE 0
         IN  SubSeq(init, 1, k) \o <<last>> \o SubSeq(init, k + 1, Len(init))

sortVehicles(vehicleList) == Sort(vehicleList, sortBy, sortOrder)

\* const processedVehicles = sortVehicles(filterVehicles(vehicles))
processedVehicles == sortVehicles(filterVehicles(vehicles))

-----------------------------------------------------------------------------
(* Specifications *)

\* a deals load or a search resolves
ListResolve ==
    \E r \in requests, ok \in BOOLEAN :
        \/ \E data \in DealsPayloads : LoadDealsResolve(r, ok, data)
        \/ \E data \in SearchPayloads : HandleSearchResolve(r, ok, data)

\* a trending, stats or sources load resolves
SideResolve ==
    \E r \in requests, ok \in BOOLEAN :
        \/ \E data \in TrendingPayloads : LoadTrendingResolve(r, ok, data)
        \/ \E data \in StatsPayloads : LoadStatsResolve(r, ok, data)
        \/ \E data \in SourcesPayloads : LoadAvailableSourcesResolve(r, ok, data)

\* a status update resolves
UpdateResolve ==
    \E r \in requests, ok \in BOOLEAN : UpdateVehicleStatusResolve(r, ok)

\* a scrape resolves
ScrapeResolveAny ==
    \E r \in requests, ok \in BOOLEAN :
        \E data \in ScrapePayloads(r.op) : ScrapeResolve(r, ok, data)

CardIds == {D1.id, D2.id, D3.id, S1.id, S2.id}

\* The dashboard from its first render: every request the user can start
\* that replaces the vehicle list or moves an indicator, every way it can
\* resolve, and the status timers.  The trending, stats and sources loads
\* of the mount effect stay outstanding (SpecLoads resolves them), the
\* filter controls stay untouched (SpecSearch fills them), and the query is
\* empty or has text (every handler trims it, so an all-blank query does
\* here what the empty one does; SpecLoads and SpecSearch type one).
Next ==
    \/ Mount
    \/ LoadDeals
    \/ HandleSearch
    \/ \E id \in CardIds, s \in StatusButtons : UpdateVehicleStatus(id, s)
    \/ HandleScrape
    \/ HandleScrapeComprehensive
    \/ HandleScrapeEnthusiast
    \/ HandleScrapePrivateParty
    \/ ListResolve
    \/ UpdateResolve
    \/ ScrapeResolveAny
    \/ \E d \in Delays : ClearStatusTimer(d)
    \/ \E q \in Queries \ {<<" ">>} : SetSearchQuery(q)

Spec == Init /\ [][Next]_vars

\* The loaders: the mount effect, refresh and search, with every one of
\* their requests resolving either way.
NextLoads ==
    \/ Mount
    \/ LoadDeals
    \/ HandleSearch
    \/ ListResolve
    \/ SideResolve
    \/ \E q \in Queries : SetSearchQuery(q)

SpecLoads == Init /\ [][NextLoads]_vars

\* every setting of the filter controls
FilterSettings ==
    { [zipCode |-> z, distance |-> d, priceMax |-> p, yearMin |-> y, minProfit |-> m] :
        z \in FilterValues("zipCode"), d \in FilterValues("distance"),
        p \in FilterValues("priceMax"), y \in FilterValues("yearMin"),
        m \in FilterValues("minProfit") }

\* The search box and the filter controls: the dashboard right after the
\* mount effects, with the inputs filled in as SetSearchQuery and SetFilter
\* can fill them; the user then searches.
InitSearch ==
    /\ vehicles = <<>>
    /\ trending = <<>>
    /\ stats = [deal_opportunities |-> 0, total_vehicles |-> 0]
    /\ availableSources = [total_sources |-> 0]
    /\ searchQuery \in Queries
    /\ filters \in FilterSettings
    /\ loading = TRUE
    /\ scrapingStatus = Null
    /\ scrapingLoading = FALSE
    /\ sortBy = "flip_score"
    /\ sortOrder = "desc"
    /\ savedVehicles = <<>>
    /\ storage = Null
    /\ savedHistory = NoSavedHistory
    /\ mounted = TRUE
    /\ requests = {DealsRequest(1), TrendingRequest(2), StatsRequest(3), SourcesRequest(4)}
    /\ timers = [d \in TimerDelays |-> 0]
    /\ nextId = MountRequests + 1
    /\ started = 0
    /\ called = {[id |-> 1, list |-> <<>>]}
    /\ applied = Null
    /\ race = NoRace
    /\ outcome = Null

NextSearch ==
    \/ HandleSearch
    \/ ListResolve

SpecSearch == InitSearch /\ [][NextSearch]_vars

\* what a scrape endpoint may send: a price and a profit estimate or none,
\* and in seller_type, source and status no field, an empty string, or a
\* value
RawListings ==
    { Vehicle(11, 2019, Null, price, profit, Null, Some(5), seller, source, status) :
        price \in {Null, Some(41000)},
        profit \in {Null, Some(2500)},
        seller \in {Null, Some(""), Some("dealer")},
        source \in {Null, Some(""), Some("cargurus")},
        status \in {Null, Some(""), Some("contacted")} }

RawPayloads(kind) ==
    { ScrapeData(1, Some(<<v>>), IF kind = "comprehensive" THEN Some(3) ELSE Null) :
        v \in RawListings }

\* a scrape resolves with one listing
ScrapeResolveRaw ==
    \E r \in requests, ok \in BOOLEAN :
        \E data \in RawPayloads(r.op) : ScrapeResolve(r, ok, data)

\* The normalisation of scraped listings: the dashboard after the mount
\* effects, with a query typed and one scrape, of any kind, in flight; the
\* scrape resolves with a listing of any shape, and the clear comes due.
InitNormalize ==
    /\ vehicles = <<>>
    /\ trending = <<>>
    /\ stats = [deal_opportunities |-> 0, total_vehicles |-> 0]
    /\ availableSources = [total_sources |-> 0]
    /\ searchQuery = <<"m", " ", "3">>
    /\ filters = NoFilters
    /\ loading = TRUE
    /\ scrapingLoading = TRUE
    /\ sortBy = "flip_score"
    /\ sortOrder = "desc"
    /\ savedVehicles = <<>>
    /\ storage = Null
    /\ savedHistory = NoSavedHistory
    /\ mounted = TRUE
    /\ \E kind \in ScrapeKinds :
          /\ scrapingStatus = Some(ProgressMessage(kind))
          /\ requests = {DealsRequest(1), TrendingRequest(2), StatsRequest(3),
                         SourcesRequest(4),
                         ScrapeRequest(MountRequests + 1, kind, searchQuery, filters)}
    /\ timers = [d \in TimerDelays |-> 0]
    /\ nextId = MountRequests + 2
    /\ started = 1
    /\ called = {[id |-> 1, list |-> <<>>], [id |-> MountRequests + 1, list |-> <<>>]}
    /\ applied = Null
    /\ race = NoRace
    /\ outcome = Null

NextNormalize ==
    \/ ScrapeResolveRaw
    \/ \E d \in Delays : ClearStatusTimer(d)

SpecNormalize == InitNormalize /\ [][NextNormalize]_vars

\* what an earlier session may have left under the 'savedVehicles' key:
\* nothing, or the text of an array of ids
StoredBefore ==
    {Null} \cup { Some(JSONStringify(arr)) : arr \in {<<>>, <<1>>, <<2, 1>>, <<3>>, <<12>>, <<1, 12>>} }

\* The saved vehicles: the dashboard from its first render, over whatever
\* an earlier session has stored; the deals arrive, the user toggles the
\* save button of the cards shown and reloads the page.
InitSaved ==
    /\ vehicles = <<>>
    /\ trending = <<>>
    /\ stats = [deal_opportunities |-> 0, total_vehicles |-> 0]
    /\ availableSources = [total_sources |-> 0]
    /\ searchQuery = <<>>
    /\ filters = NoFilters
    /\ loading = FALSE
    /\ scrapingStatus = Null
    /\ scrapingLoading = FALSE
    /\ sortBy = "flip_score"
    /\ sortOrder = "desc"
    /\ savedVehicles = <<>>
    /\ storage \in StoredBefore
    /\ savedHistory = NoSavedHistory
    /\ mounted = FALSE
    /\ requests = {}
    /\ timers = [d \in TimerDelays |-> 0]
    /\ nextId = 1
    /\ started = 0
    /\ called = {}
    /\ applied = Null
    /\ race = NoRace
    /\ outcome = Null

NextSaved ==
    \/ Mount
    \/ ListResolve
    \/ \E id \in CardIds : ToggleSaveVehicle(id)
    \/ Reload

SpecSaved == InitSaved /\ [][NextSaved]_vars

\* the filters filterVehicles reads
ClientFilters == {"priceMax", "yearMin", "minProfit"}

\* The filters over the list: the deals have loaded, the user has typed a
\* query and started one scrape, of any kind; the filter controls change
\* while the scrape is in flight and after it has replaced the list with a
\* listing of any shape.
InitFilter ==
    /\ vehicles = <<D1, D2>>
    /\ trending = <<>>
    /\ stats = [deal_opportunities |-> 0, total_vehicles |-> 0]
    /\ availableSources = [total_sources |-> 0]
    /\ searchQuery = <<"m", " ", "3">>
    /\ filters = NoFilters
    /\ loading = FALSE
    /\ scrapingLoading = TRUE
    /\ sortBy = "flip_score"
    /\ sortOrder = "desc"
    /\ savedVehicles = <<>>
    /\ storage = Null
    /\ savedHistory = NoSavedHistory
    /\ mounted = TRUE
    /\ \E kind \in ScrapeKinds :
          /\ scrapingStatus = Some(ProgressMessage(kind))
          /\ requests = {TrendingRequest(2), StatsRequest(3), SourcesRequest(4),
                         ScrapeRequest(MountRequests + 1, kind, searchQuery, filters)}
    /\ timers = [d \in TimerDelays |-> 0]
    /\ nextId = MountRequests + 2
    /\ started = 1
    /\ called = {[id |-> MountRequests + 1, list |-> <<D1, D2>>]}
    /\ applied = Some([result |-> <<D1, D2>>, before |-> <<>>,
                       overlapped |-> FALSE, overtaken |-> FALSE])
    /\ race = NoRace
    /\ outcome = Some(TRUE)

NextFilter ==
    \/ \E name \in FilterNames : \E value \in FilterValues(name) : SetFilter(name, value)
    \/ ScrapeResolveRaw
    \/ \E d \in Delays : ClearStatusTimer(d)

SpecFilter == InitFilter /\ [][NextFilter]_vars

\* deals pages whose vehicles tie in some fields and lack others
ViewPayloads == {<<D1, D2>>, <<D3, D1, D4>>, <<D4, D3, D2, D1>>, <<D2, D1, D4>>}

\* the deals load of the mount effects resolves
ListResolveView ==
    \E r \in requests, ok \in BOOLEAN :
        \E data \in ViewPayloads : LoadDealsResolve(r, ok, data)

\* The list shown: the dashboard from its first render; the deals arrive,
\* and the user works the sort dropdown, the pills and the filter controls.
NextView ==
    \/ Mount
    \/ ListResolveView
    \/ \E option \in SortOptions \cup SortPills : SetSort(option)
    \/ \E name \in ClientFilters : \E value \in FilterValues(name) : SetFilter(name, value)
    \/ UnderFiftyK
    \/ RefreshTimer

SpecView == Init /\ [][NextView]_vars

\* what the scraper test endpoint may report: each source and whether its
\* scraper works
TestPayloads ==
    { <<[source |-> "cars.com", working |-> TRUE], [source |-> "autotrader", working |-> FALSE]>>,
      <<[source |-> "cars.com", working |-> FALSE]>> }

\* testScrapers up to its await: axios.get(`${API}/scrape/test`)
TestScrapers ==
    /\ mounted
    /\ CanStart
    /\ started' = started + 1
    /\ requests' = requests \cup
           {Request(nextId, "testScrapers", "GET", "/scrape/test", <<>>, Null, 0, Null)}
    /\ nextId' = nextId + 1
    /\ UNCHANGED <<dataVars, inputVars, flagVars, viewVars, mounted, timers, called,
                   histVars>>

\* testScrapers after its await: on success the status names the working
\* scrapers, or says that none works, and its clear is set for 5 s; a
\* failure is only logged
TestScrapersResolve ==
    \E r \in requests, ok \in BOOLEAN, data \in TestPayloads :
        /\ r.op = "testScrapers"
        /\ requests' = requests \ {r}
        /\ IF ok
           THEN LET workingScrapers ==
                        SelectSeq(data, LAMBDA entry : entry.working)
                IN  /\ scrapingStatus' =
                           IF Len(workingScrapers) > 0
                           THEN Some([text |-> "Working scrapers: S",
                                      sources |-> [i \in 1..Len(workingScrapers) |->
                                                      workingScrapers[i].source]])
                           ELSE Some(Message("No scrapers are currently working", 0, 0, 0))
                    /\ timers' = [timers EXCEPT ![QuickClearDelay] = @ + 1]
           ELSE UNCHANGED <<scrapingStatus, timers>>
        /\ UNCHANGED <<dataVars, inputVars, loading, scrapingLoading, viewVars, mounted,
                       nextId, started, called, histVars>>

\* The dashboard that has the quick scrape only, after its mount effects
\* (loadDeals, loadTrending, loadStats).
InitQuickOnly ==
    /\ vehicles = <<>>
    /\ trending = <<>>
    /\ stats = [deal_opportunities |-> 0, total_vehicles |-> 0]
    /\ availableSources = [total_sources |-> 0]
    /\ searchQuery = <<>>
    /\ filters = NoFilters
    /\ loading = TRUE
    /\ scrapingStatus = Null
    /\ scrapingLoading = FALSE
    /\ sortBy = "flip_score"
    /\ sortOrder = "desc"
    /\ savedVehicles = <<>>
    /\ storage = Null
    /\ savedHistory = NoSavedHistory
    /\ mounted = TRUE
    /\ requests = {DealsRequest(1), TrendingRequest(2), StatsRequest(3)}
    /\ timers = [d \in TimerDelays |-> 0]
    /\ nextId = 4
    /\ started = 0
    /\ called = {[id |-> 1, list |-> <<>>]}
    /\ applied = Null
    /\ race = NoRace
    /\ outcome = Null

NextQuickOnly ==
    \/ HandleScrape
    \/ ScrapeResolveAny
    \/ TestScrapers
    \/ TestScrapersResolve
    \/ ListResolve
    \/ \E d \in Delays : ClearStatusTimer(d)
    \/ \E q \in Queries : SetSearchQuery(q)

SpecQuickOnly == InitQuickOnly /\ [][NextQuickOnly]_vars

-----------------------------------------------------------------------------
(* Properties *)

LoadOps == {"loadDeals", "search"}

\* the query is empty or holds nothing but whitespace
AllWhitespace(q) == \A i \in 1..Len(q) : q[i] = " "

\* C1: when two list-replacing requests (deals load, non-empty search,
\* scrape) were in flight at the same time and both succeeded, the vehicle
\* list is the payload of the one whose response arrived last, whichever of
\* the two was issued first.
LastArrivalWins ==
    (~IsNull(applied) /\ Val(applied).overlapped) => vehicles = Val(applied).result

\* the response that arrived last belongs to the request issued first, and
\* it changed the list
LastArrivalWinsWitness ==
    /\ ~IsNull(applied)
    /\ Val(applied).overlapped
    /\ Val(applied).overtaken
    /\ vehicles = Val(applied).result
    /\ Len(vehicles) # Len(Val(applied).before)

\* C2: while a request of loadDeals or of a non-empty search is in flight,
\* loading is true.
LoadingWhileLoadInFlight == InFlight(LoadOps) # {} => loading

\* C3: while a scrape request of any kind is in flight, scrapingLoading is
\* true.
BusyWhileScrapeInFlight == InFlight(ScrapeKinds) # {} => scrapingLoading

\* C4: while a scrape request is in flight, scrapingStatus is not null,
\* also with timers of earlier scrapes pending.
StatusWhileScrapeInFlight == InFlight(ScrapeKinds) # {} => ~IsNull(scrapingStatus)

\* C5: every deals or search request that resolves, by success or by
\* failure, sets loading to false, and every scrape request that resolves
\* sets scrapingLoading to false; so with no request of a class in flight
\* the flag of that class is false.
IndicatorsReturnToIdle ==
    /\ [](InFlight(LoadOps) = {} => ~loading)
    /\ [](InFlight(ScrapeKinds) = {} => ~scrapingLoading)
    /\ [][\A r \in requests \ requests' :
              /\ r.op \in LoadOps => ~loading'
              /\ r.op \in ScrapeKinds => ~scrapingLoading']_vars

\* a deals load or search has failed last and a scrape has failed (its
\* failure message shows), nothing is in flight and both flags are down
IndicatorsReturnToIdleWitness ==
    /\ outcome = Some(FALSE)
    /\ \E kind \in ScrapeKinds : scrapingStatus = Some(FailureMessage(kind))
    /\ InFlight(ListOps) = {}
    /\ ~loading
    /\ ~scrapingLoading

ScrapeStep ==
    \/ HandleScrape
    \/ HandleScrapeComprehensive
    \/ HandleScrapeEnthusiast
    \/ HandleScrapePrivateParty
    \/ ScrapeResolveAny
    \/ \E d \in Delays : ClearStatusTimer(d)

LoadStep ==
    \/ Mount
    \/ LoadDeals
    \/ HandleSearch
    \/ ListResolve

\* C6: no scrape operation changes loading, and neither loadDeals nor
\* search changes scrapingLoading or scrapingStatus: a step that changes
\* loading is no step of a scrape, and a step that changes scrapingLoading
\* or scrapingStatus is no step of a load.
IndicatorClassesIndependent ==
    [][/\ loading' # loading => ~ScrapeStep
       /\ <<scrapingLoading, scrapingStatus>>' # <<scrapingLoading, scrapingStatus>>
             => ~LoadStep]_vars

\* a search has resolved while a scrape was in flight and its result is
\* shown: the scrape's flag and progress message stand, and loading is down
IndicatorClassesIndependentWitness ==
    /\ outcome = Some(TRUE)
    /\ vehicles = <<D3>>
    /\ ~loading
    /\ scrapingLoading
    /\ \E r \in InFlight(ScrapeKinds) :
          /\ r.id \in race.overlapped
          /\ scrapingStatus = Some(ProgressMessage(r.op))

\* the continuation of r runs its catch
ListLoadFails(r) ==
    \/ \E data \in DealsPayloads : LoadDealsResolve(r, FALSE, data)
    \/ \E data \in SearchPayloads : HandleSearchResolve(r, FALSE, data)

SideLoadFails(r) ==
    \/ \E data \in TrendingPayloads : LoadTrendingResolve(r, FALSE, data)
    \/ \E data \in StatsPayloads : LoadStatsResolve(r, FALSE, data)
    \/ \E data \in SourcesPayloads : LoadAvailableSourcesResolve(r, FALSE, data)

\* what the controls' disabled attributes and the handlers' guards read
ControlState == <<mounted, searchQuery, scrapingLoading>>

\* C7 as stated: when the request of loadDeals or search fails, the vehicle
\* list is what it was before the call; when loadTrending or loadStats
\* fails, trends and stats are what they were; no failure blocks later
\* operations.
FailedLoadKeepsListOfCall ==
    [][\A r \in requests :
          /\ ListLoadFails(r) =>
                vehicles' = ListAtCall(r) /\ ~loading' /\ UNCHANGED ControlState
          /\ SideLoadFails(r) =>
                UNCHANGED <<trending, stats, loading, ControlState>>]_vars

\* C7 as amended: when the request of loadDeals or search fails, handling
\* the failure leaves the vehicle list as it was just before (it differs
\* from the list before the call when another response replaced it in
\* between); when loadTrending or loadStats fails, trends and stats are
\* what they were; no failure blocks later operations.
FailedLoadKeepsData ==
    [][\A r \in requests :
          /\ ListLoadFails(r) =>
                vehicles' = vehicles /\ ~loading' /\ UNCHANGED ControlState
          /\ SideLoadFails(r) =>
                UNCHANGED <<trending, stats, loading, ControlState>>]_vars

\* a deals load or search has failed last and the loaded list is still
\* there; the trending load has failed too and the trend list is as before
FailedLoadKeepsDataWitness ==
    /\ outcome = Some(FALSE)
    /\ Len(vehicles) > 0
    /\ mounted
    /\ InFlight({"loadTrending"}) = {}
    /\ trending = <<>>

\* the request axios.get(`${API}/deals?limit=20`) issued under the next id
PlainDealsRequest ==
    [id |-> nextId, op |-> "loadDeals", method |-> "GET", path |-> "/deals",
     query |-> <<"l", "i", "m", "i", "t", "=", "2", "0">>, params |-> <<>>,
     vid |-> 0, body |-> <<>>]

\* C8: a search whose query is empty or only whitespace does what loadDeals
\* does: it issues the one request GET /deals?limit=20, whatever the
\* filters hold, raises loading, and that request resolves as a deals load.
BlankSearchIsLoadDeals ==
    [][(HandleSearch /\ AllWhitespace(searchQuery)) =>
          /\ LoadDeals
          /\ requests' = requests \cup {PlainDealsRequest}
          /\ PlainDealsRequest \notin requests
          /\ loading'
          /\ vehicles' = vehicles]_vars

\* a whitespace query with every filter set has been searched: the request
\* in flight is the plain deals load
BlankSearchIsLoadDealsWitness ==
    /\ searchQuery = <<" ">>
    /\ \A n \in FilterNames : filters[n] # <<>>
    /\ loading
    /\ \E r \in requests : r.id > MountRequests /\ r.op = "loadDeals"
    /\ InFlight({"search"}) = {}

\* the query string as the server reads it: parts separated by "&", each
\* a name and, after the first "=", a value
HasChar(s, c) == \E i \in 1..Len(s) : s[i] = c

FirstIndex(s, c) == CHOOSE i \in 1..Len(s) : s[i] = c /\ \A j \in 1..(i - 1) : s[j] # c

RECURSIVE SplitOn(_, _)
SplitOn(s, c) ==
    IF ~HasChar(s, c) THEN <<s>>
    ELSE <<SubSeq(s, 1, FirstIndex(s, c) - 1)>>
         \o SplitOn(SubSeq(s, FirstIndex(s, c) + 1, Len(s)), c)

RECURSIVE PercentDecode(_)
PercentDecode(s) ==
    IF s = <<>> THEN <<>>
    ELSE IF Len(s) >= 3 /\ SubSeq(s, 1, 3) = <<"%", "2", "0">>
         THEN <<" ">> \o PercentDecode(SubSeq(s, 4, Len(s)))
    ELSE IF Len(s) >= 3 /\ SubSeq(s, 1, 3) = <<"%", "2", "6">>
         THEN <<"&">> \o PercentDecode(SubSeq(s, 4, Len(s)))
    ELSE IF Len(s) >= 3 /\ SubSeq(s, 1, 3) = <<"%", "3", "D">>
         THEN <<"=">> \o PercentDecode(SubSeq(s, 4, Len(s)))
    ELSE <<Head(s)>> \o PercentDecode(Tail(s))

ParamOf(part) ==
    IF HasChar(part, "=")
    THEN <<SubSeq(part, 1, FirstIndex(part, "=") - 1),
           PercentDecode(SubSeq(part, FirstIndex(part, "=") + 1, Len(part)))>>
    ELSE <<part, <<>>>>

SentParams(query) ==
    LET parts == SplitOn(query, "&")
    IN  { ParamOf(parts[i]) : i \in { j \in 1..Len(parts) : parts[j] # <<>> } }

\* q, and each of the four forwarded filters that is set
ExpectedParams(q, f) ==
    {<<<<"q">>, q>>}
    \cup (IF f.zipCode # <<>>
          THEN {<<<<"z", "i", "p", "_", "c", "o", "d", "e">>, f.zipCode>>} ELSE {})
    \cup (IF f.distance # <<>>
          THEN {<<<<"d", "i", "s", "t", "a", "n", "c", "e">>, f.distance>>} ELSE {})
    \cup (IF f.priceMax # <<>>
          THEN {<<<<"p", "r", "i", "c", "e", "_", "m", "a", "x">>, f.priceMax>>} ELSE {})
    \cup (IF f.yearMin # <<>>
          THEN {<<<<"y", "e", "a", "r", "_", "m", "i", "n">>, f.yearMin>>} ELSE {})

\* C9: a search with a non-empty query sends GET /search with q and exactly
\* those of zip_code, distance, price_max, year_min whose filter is set,
\* never the min-profit filter, and on success the response replaces the
\* vehicle list.
SearchSendsSetFilters ==
    [][/\ (HandleSearch /\ ~AllWhitespace(searchQuery)) =>
             \E r \in requests' \ requests :
                /\ requests' = requests \cup {r}
                /\ r.method = "GET"
                /\ r.path = "/search"
                /\ SentParams(r.query) = ExpectedParams(searchQuery, filters)
       /\ \A r \in requests, data \in SearchPayloads :
             HandleSearchResolve(r, TRUE, data) => vehicles' = data]_vars

\* the array of a scrape response, empty when the response has none
ResponseVehicles(data) == IF IsNull(data.vehicles) THEN <<>> ELSE Val(data.vehicles)

\* v is the listing raw with, at most, its missing seller_type, source and
\* status filled in
SameListing(v, raw) ==
    /\ v.id = raw.id
    /\ v.asking_price = raw.asking_price
    /\ v.est_profit = raw.est_profit
    /\ \A f \in {"seller_type", "source", "status"} :
          /\ ~IsNull(v[f])
          /\ v[f] = raw[f] \/ IsNull(raw[f]) \/ Val(raw[f]) = ""

ScrapeFailureKeepsListOfCall ==
    [][\A r \in requests \ requests' : \A data \in ScrapePayloads(r.op) :
          ScrapeResolve(r, FALSE, data) =>
             /\ vehicles' = ListAtCall(r)
             /\ scrapingStatus' = Some(FailureMessage(r.op))]_vars

\* C12 as amended: when a scrape request fails, handling the failure leaves
\* the vehicle list as it was just before (not cleared; it differs from the
\* list before the scrape when another response replaced it in between),
\* and scrapingStatus is the failure message of that operation.
ScrapeFailureKeepsList ==
    [][\A r \in requests \ requests' : \A data \in ScrapePayloads(r.op) :
          ScrapeResolve(r, FALSE, data) =>
             /\ vehicles' = vehicles
             /\ scrapingStatus' = Some(FailureMessage(r.op))]_vars

\* a scrape has failed (its failure message shows) and the two deals are
\* still listed
ScrapeFailureKeepsListWitness ==
    /\ \E kind \in ScrapeKinds : scrapingStatus = Some(FailureMessage(kind))
    /\ InFlight(ScrapeKinds) = {}
    /\ vehicles = <<D1, D2>>

\* The scrapes alone, with the browser's timer queue: a callback that
\* setTimeout has scheduled is run once its delay has passed, so a pending
\* clear does not stay pending for ever.  Nothing is assumed of the backend:
\* a scrape request may stay unanswered.
NextScrape ==
    \/ Mount
    \/ HandleScrape
    \/ HandleScrapeComprehensive
    \/ HandleScrapeEnthusiast
    \/ HandleScrapePrivateParty
    \/ ScrapeResolveAny
    \/ \E d \in Delays : ClearStatusTimer(d)
    \/ \E q \in Queries : SetSearchQuery(q)

SpecScrape ==
    Init /\ [][NextScrape]_vars /\ \A d \in Delays : WF_vars(ClearStatusTimer(d))

\* C13: every scrape that resolves, by success or by failure, schedules one
\* clear of the status message, after 5000 ms for the quick scrape and
\* after 8000 ms for the other three; a scheduled clear is run, and once no
\* scrape is in flight any more the status message becomes null and stays
\* null.
StatusMessageClears ==
    /\ [][\A r \in requests \ requests' : r.op \in ScrapeKinds =>
             timers' = [timers EXCEPT ![IF r.op = "quick" THEN 5000 ELSE 8000] = @ + 1]]_vars
    /\ \A d \in Delays : (timers[d] > 0) ~> (scrapingStatus = Null)
    /\ <>[](InFlight(ScrapeKinds) = {}) => <>[](scrapingStatus = Null)

\* two scrapes have resolved and the listings of one are shown; the clears
\* of both have run and the status message is null
StatusMessageClearsWitness ==
    /\ vehicles # <<>>
    /\ \A i \in 1..Len(vehicles) : vehicles[i].id \in {S1.id, S2.id}
    /\ started = 2
    /\ InFlight(ScrapeKinds) = {}
    /\ \A d \in Delays : timers[d] = 0
    /\ scrapingStatus = Null

\* the field is absent, null or empty in the response
MissingField(raw, f) == raw[f] = Null \/ raw[f] = Some("")

\* C14: every vehicle a scrape places in the list has a seller_type, a
\* source and a status: a value the response carries is kept, a missing
\* seller_type becomes 'unknown' for quick and comprehensive, 'auction' for
\* enthusiast and 'private' for private-party, a missing source becomes
\* 'unknown', a missing status becomes 'new'; id, asking_price and
\* est_profit are as in the response.
ScrapedListingsNormalised ==
    [][\A r \in requests \ requests' : \A data \in RawPayloads(r.op) :
          ScrapeResolve(r, TRUE, data) =>
             /\ Len(vehicles') = Len(Val(data.vehicles))
             /\ \A i \in 1..Len(vehicles') :
                   LET v == vehicles'[i]
                       raw == Val(data.vehicles)[i]
                   IN  /\ \A f \in {"seller_type", "source", "status"} :
                             /\ v[f] # Null
                             /\ ~MissingField(raw, f) => v[f] = raw[f]
                       /\ MissingField(raw, "seller_type") =>
                             v.seller_type =
                                Some(CASE r.op = "quick" -> "unknown"
                                       [] r.op = "comprehensive" -> "unknown"
                                       [] r.op = "enthusiast" -> "auction"
                                       [] r.op = "private" -> "private")
                       /\ MissingField(raw, "source") => v.source = Some("unknown")
                       /\ MissingField(raw, "status") => v.status = Some("new")
                       /\ \A f \in (DOMAIN raw) \ {"seller_type", "source", "status"} :
                             v[f] = raw[f]]_vars

\* the enthusiast scrape has delivered a listing without seller_type, with
\* an empty source and with a status: it is listed as an auction listing of
\* unknown source, its status kept
ScrapedListingsNormalisedWitness ==
    /\ scrapingStatus = Some(FoundMessage("enthusiast", ScrapeData(1, Null, Null)))
    /\ Len(vehicles) = 1
    /\ vehicles[1].seller_type = Some("auction")
    /\ vehicles[1].source = Some("unknown")
    /\ vehicles[1].status = Some("contacted")
    /\ vehicles[1].asking_price = Some(41000)

\* C15: updateVehicleStatus never writes the vehicle list: the call sends
\* PUT /vehicles/{id} with the status and leaves the list alone; when the
\* mutation succeeds one loadDeals is issued and the list is still as it
\* was (it changes when a response is applied); when the mutation fails
\* nothing is issued and the list is as it was.
StatusUpdateOnlyReloads ==
    [][/\ \A r \in requests' \ requests : r.op = "updateVehicleStatus" =>
             /\ vehicles' = vehicles
             /\ requests' = requests \cup {r}
             /\ r.method = "PUT"
             /\ r.path = "/vehicles"
             /\ \E i \in 1..Len(vehicles) : vehicles[i].id = r.vid
             /\ r.body \in { Some([status |-> st]) : st \in {"watching", "contacted"} }
       /\ \A r \in requests \ requests' : r.op = "updateVehicleStatus" =>
             /\ vehicles' = vehicles
             /\ UpdateVehicleStatusResolve(r, TRUE) =>
                   \E n \in requests' \ requests :
                      /\ requests' = (requests \ {r}) \cup {n}
                      /\ n.method = "GET"
                      /\ n.path = "/deals"
                      /\ loading'
             /\ UpdateVehicleStatusResolve(r, FALSE) =>
                   /\ requests' = requests \ {r}
                   /\ loading' = loading]_vars

\* a status mutation has succeeded: its reload is in flight (one request
\* more has been issued than the user started) and the two deals are
\* listed with the statuses they had
StatusUpdateOnlyReloadsWitness ==
    /\ mounted
    /\ nextId - 1 - MountRequests > started
    /\ DealsRequest(nextId - 1) \in requests
    /\ InFlight({"updateVehicleStatus"}) = {}
    /\ vehicles = <<D1, D2>>

\* C16: when the same id has been toggled twice in succession, the saved
\* set has the membership it had before the two toggles, and so have the
\* ids stored under the 'savedVehicles' key.
ToggleTwiceRestores ==
    \A h \in {savedHistory.toggle} \ {Null} :
        ~IsNull(Val(h).prev) =>
            /\ Members(savedVehicles) = Val(Val(h).prev).saved
            /\ StoredIds(storage) = Val(Val(h).prev).stored

\* deal 1 was saved and stored next to listing 12, and has been toggled
\* twice: it is saved and stored again
ToggleTwiceRestoresWitness ==
    /\ ~IsNull(savedHistory.toggle)
    /\ Val(savedHistory.toggle).id = D1.id
    /\ Val(savedHistory.toggle).prev = Some([saved |-> {D1.id, 12}, stored |-> {D1.id, 12}])
    /\ Val(savedHistory.toggle).last.saved = {12}
    /\ Members(savedVehicles) = {D1.id, 12}
    /\ storage = Some(<<"[", "1", "2", ",", "1", "]">>)

\* C17: a toggle of id flips the membership of id and of no other id and
\* writes the set to local storage at once; in every state after the mount
\* effects the ids stored under the 'savedVehicles' key are the ids of the
\* saved set.
StorageMirrorsSaved ==
    /\ [](mounted => StoredIds(storage) = Members(savedVehicles))
    /\ [][\A id \in CardIds : ToggleSaveVehicle(id) =>
             /\ Members(savedVehicles') =
                   IF id \in Members(savedVehicles)
                   THEN Members(savedVehicles) \ {id}
                   ELSE Members(savedVehicles) \cup {id}
             /\ ~IsNull(storage')
             /\ StoredIds(storage') = Members(savedVehicles')]_vars

\* deal 2 has been added to a stored set that held deal 1: both are saved
\* and the stored text lists both
StorageMirrorsSavedWitness ==
    /\ mounted
    /\ ~IsNull(savedHistory.toggle)
    /\ Val(savedHistory.toggle).id = D2.id
    /\ Val(savedHistory.toggle).last.stored = {D1.id}
    /\ savedVehicles = <<D1.id, D2.id>>
    /\ storage = Some(<<"[", "1", ",", "2", "]">>)

\* C18: after a page reload and the mount effects, the saved set is the
\* one that was in memory just before the reload (until the next toggle).
SavedSurvivesReload ==
    \A before \in {savedHistory.reload} \ {Null} :
        mounted => Members(savedVehicles) = Val(before)

\* the page was reloaded with deals 2 and 1 saved, and after the mount
\* effects both are saved
SavedSurvivesReloadWitness ==
    /\ mounted
    /\ savedHistory.reload = Some({D1.id, D2.id})
    /\ savedVehicles = <<D2.id, D1.id>>
    /\ storage = Some(<<"[", "2", ",", "1", "]">>)

\* C19: a toggle issues no backend request and leaves the vehicle list
\* (every vehicle's status with it), the trend list, the stats, the
\* loading and scraping flags, the status message, the query, the filters
\* and the sort state as they are.
ToggleIsClientSide ==
    [][\A id \in CardIds : ToggleSaveVehicle(id) =>
          UNCHANGED <<requests, nextId, vehicles, trending, stats, availableSources,
                      loading, scrapingLoading, scrapingStatus, searchQuery, filters,
                      sortBy, sortOrder, timers>>]_vars

\* a card has been toggled while the mount effect's other loads are still
\* in flight: they are still in flight and the deals are still listed
ToggleIsClientSideWitness ==
    /\ ~IsNull(savedHistory.toggle)
    /\ Val(savedHistory.toggle).id = D2.id
    /\ IsNull(Val(savedHistory.toggle).prev)
    /\ savedVehicles = <<D2.id>>
    /\ vehicles = <<D1, D2>>
    /\ requests = {TrendingRequest(2), StatsRequest(3), SourcesRequest(4)}
    /\ ~loading

\* C20: with a maximum price P set, every vehicle of the filtered list has
\* an asking price, and it is at most P, so that a vehicle without an asking
\* price is not in it; with no filter set the filtered list has the
\* membership of the list; and of deals 1 (30000) and 2 (55000) a maximum
\* price of 50000 leaves deal 1 only.
FilterKeepsWithinMaxPrice ==
    LET shown == filterVehicles(vehicles)
        ids(list) == { list[i].id : i \in 1..Len(list) }
    IN  /\ filters.priceMax # <<>> =>
              \A i \in 1..Len(shown) :
                  /\ ~IsNull(shown[i].asking_price)
                  /\ Val(shown[i].asking_price) <= StringToNumber(filters.priceMax)
        /\ (\A name \in ClientFilters : filters[name] = <<>>) =>
              ids(shown) = ids(vehicles)
        /\ (/\ vehicles = <<D1, D2>>
            /\ filters = [NoFilters EXCEPT !.priceMax = <<"5", "0", "0", "0", "0">>]) =>
              ids(shown) = {D1.id}

\* C21: the filtered list holds, in the order of the list, exactly the
\* vehicles that no set filter rejects: a set maximum price rejects an
\* asking price above it, a set minimum year a year below it, a set minimum
\* profit an estimated profit below it, a missing estimate counting as 0;
\* the zip code and the distance, set or not, have no part in it.
FilterRejectsBySetFilters ==
    LET number(name) == StringToNumber(filters[name])
        set(name) == filters[name] # <<>>
        profit(v) == IF v.est_profit = Null THEN 0 ELSE v.est_profit[1]
        rejected(v) ==
            \/ set("priceMax") /\ v.asking_price # Null
                               /\ v.asking_price[1] > number("priceMax")
            \/ set("yearMin") /\ v.year < number("yearMin")
            \/ set("minProfit") /\ profit(v) < number("minProfit")
    IN  filterVehicles(vehicles) = SelectSeq(vehicles, LAMBDA v : ~rejected(v))

\* a minimum profit and a zip code are set, and the one listing, which has
\* no profit estimate, is filtered out
FilterRejectsBySetFiltersWitness ==
    /\ filters.minProfit # <<>>
    /\ filters.zipCode # <<>>
    /\ Len(vehicles) = 1
    /\ vehicles[1].est_profit = Null
    /\ filterVehicles(vehicles) = <<>>

\* C22: for every numeric field in which all vehicles of the list have a
\* value, the list sorted descending starts with a vehicle of the largest
\* value and ends with one of the smallest, and sorted ascending it starts
\* with one of the smallest and ends with one of the largest.
SortPutsExtremesAtEnds ==
    \A f \in NumericFields :
        LET value(v) == FieldOf(v, f)[1]
            values == { value(vehicles[i]) : i \in 1..Len(vehicles) }
            largest == CHOOSE x \in values : \A y \in values : y <= x
            smallest == CHOOSE x \in values : \A y \in values : x <= y
            desc == Sort(vehicles, f, "desc")
            asc == Sort(vehicles, f, "asc")
        IN  (vehicles # <<>> /\ \A i \in 1..Len(vehicles) : FieldOf(vehicles[i], f) # Null) =>
                /\ Len(desc) = Len(vehicles) /\ Len(asc) = Len(vehicles)
                /\ value(desc[1]) = largest /\ value(desc[Len(desc)]) = smallest
                /\ value(asc[1]) = smallest /\ value(asc[Len(asc)]) = largest

\* deals 1 (profit 4000) and 2 (profit 9000) are shown by profit, highest
\* first, unfiltered: deal 2 comes before deal 1
SortPutsExtremesAtEndsWitness ==
    /\ vehicles = <<D1, D2>>
    /\ sortBy = "est_profit" /\ sortOrder = "desc"
    /\ filters = NoFilters
    /\ processedVehicles = <<D2, D1>>

\* C23, as stated: in the list sorted by a numeric field, in either
\* direction, no vehicle without a value in the field comes before one with
\* a value.
NullsAlwaysAtEnd ==
    \A f \in NumericFields, o \in {"asc", "desc"} :
        LET sorted == Sort(vehicles, f, o)
        IN  \A i, j \in 1..Len(sorted) :
                (FieldOf(sorted[i], f) = Null /\ FieldOf(sorted[j], f) # Null) => j < i

\* C23, amended: in the list sorted descending by a numeric field, every
\* vehicle without a value in the field comes after all those with a value;
\* sorted ascending, it comes before all of them.
NullsAtEndWhenDescending ==
    \A f \in NumericFields :
        LET desc == Sort(vehicles, f, "desc")
            asc == Sort(vehicles, f, "asc")
        IN  /\ \A i, j \in 1..Len(desc) :
                  (FieldOf(desc[i], f) = Null /\ FieldOf(desc[j], f) # Null) => j < i
            /\ \A i, j \in 1..Len(asc) :
                  (FieldOf(asc[i], f) = Null /\ FieldOf(asc[j], f) # Null) => i < j

\* the four deals are shown by price, highest first: deal 4, which has no
\* asking price, is last
NullsAtEndWhenDescendingWitness ==
    /\ vehicles = <<D4, D3, D2, D1>>
    /\ sortBy = "asking_price" /\ sortOrder = "desc"
    /\ filters = NoFilters
    /\ processedVehicles = <<D2, D1, D3, D4>>

\* C24: the list sorted by a numeric field consists of the vehicles without
\* a value in the field and those with one, as two blocks: the block without
\* values is the second when the direction is descending and the first when
\* it is ascending, whether the values present are negative or positive.
NullsFollowDirection ==
    \A f \in NumericFields, o \in {"asc", "desc"} :
        LET sorted == Sort(vehicles, f, o)
            missing == Cardinality({ i \in 1..Len(vehicles) : FieldOf(vehicles[i], f) = Null })
            present == Len(vehicles) - missing
            block == IF o = "desc" THEN (present + 1)..Len(vehicles) ELSE 1..missing
        IN  /\ Len(sorted) = Len(vehicles)
            /\ \A i \in 1..Len(sorted) : (FieldOf(sorted[i], f) = Null) <=> (i \in block)

\* the four deals are shown by mileage, lowest first: deal 3, which has no
\* mileage, is first
NullsFollowDirectionWitness ==
    /\ vehicles = <<D4, D3, D2, D1>>
    /\ sortBy = "mileage" /\ sortOrder = "asc"
    /\ filters = NoFilters
    /\ processedVehicles = <<D3, D4, D1, D2>>

\* C25: the list shown holds each vehicle of the list that passes the
\* filter once and nothing else; and a step that changes the sort field, the
\* direction or the filters leaves the list as it is and sends no request.
ViewReordersFiltered ==
    /\ [](LET count(list, v) == Cardinality({ i \in 1..Len(list) : list[i] = v })
              passing == filterVehicles(vehicles)
              all == { vehicles[i] : i \in 1..Len(vehicles) }
                     \cup { processedVehicles[i] : i \in 1..Len(processedVehicles) }
          IN  /\ Len(processedVehicles) = Len(passing)
              /\ \A v \in all : count(processedVehicles, v) = count(passing, v)
              /\ \A v \in all : count(passing, v) \in {0, count(vehicles, v)})
    /\ [][(sortBy' # sortBy \/ sortOrder' # sortOrder \/ filters' # filters)
          => (vehicles' = vehicles /\ requests' = requests /\ nextId' = nextId)]_vars

\* of four deals the one above the maximum price is filtered out and the
\* rest are shown newest first, with no deals request in flight
ViewReordersFilteredWitness ==
    /\ vehicles = <<D4, D3, D2, D1>>
    /\ sortBy = "year" /\ sortOrder = "desc"
    /\ filters.priceMax = <<"5", "0", "0", "0", "0">>
    /\ processedVehicles = <<D1, D4, D3>>
    /\ \A r \in requests : r.op # "loadDeals"

\* C26: a step that leaves a deals or search request unresolved does not
\* lower loading, and a step that leaves a scrape request unresolved does
\* not lower scrapingLoading, whatever else the step starts or completes.
HungRequestKeepsBusy ==
    [][/\ (loading /\ ~loading') => InFlight(LoadOps) \cap requests' = {}
       /\ (scrapingLoading /\ ~scrapingLoading') =>
              InFlight(ScrapeKinds) \cap requests' = {}]_vars

\* C27: sortBy starts as flip_score and sortOrder as desc, and whatever the
\* sort dropdown and the pills are used for, sortBy is one of the six numeric
\* fields and sortOrder is asc or desc, so that the comparator never
\* subtracts values it has not converted to numbers.
SortStateIsNumeric ==
    /\ sortBy = "flip_score" /\ sortOrder = "desc"
    /\ [](/\ sortBy \in {"asking_price", "est_profit", "roi_percent", "flip_score",
                         "year", "mileage"}
          /\ sortOrder \in {"asc", "desc"})

\* the deals are shown by mileage, lowest first
SortStateIsNumericWitness ==
    /\ sortBy = "mileage" /\ sortOrder = "asc"
    /\ Len(processedVehicles) > 1
    /\ processedVehicles = Sort(processedVehicles, "mileage", "asc")

\* C28: a step of a scrape handler taken while the query is empty or holds
\* only whitespace sends no request, sets no timer and leaves the vehicle
\* list, scrapingLoading and scrapingStatus as they are.
BlankScrapeIsNoOp ==
    [][(\/ requests' # requests \/ timers' # timers \/ vehicles' # vehicles
        \/ scrapingLoading' # scrapingLoading \/ scrapingStatus' # scrapingStatus)
       => ~(/\ AllWhitespace(searchQuery)
            /\ \E kind \in ScrapeKinds : ScrapeStart(kind))]_vars

\* the query holds a space, a scrape has left its status message and the
\* timer that will clear it, and the "All Sources" button can be clicked
BlankScrapeIsNoOpWitness ==
    /\ mounted
    /\ searchQuery = <<" ">>
    /\ ENABLED ScrapeStart("comprehensive")
    /\ ~IsNull(scrapingStatus)
    /\ \E d \in Delays : timers[d] > 0
    /\ started < MaxUserRequests

\* C29: in the dashboard that has the quick scrape only, at most one scrape
\* request is in flight, and scrapingLoading is true exactly when one is.
OneScrapeInFlight ==
    /\ Cardinality({ r \in requests : r.op \in ScrapeKinds }) <= 1
    /\ scrapingLoading <=> (\E r \in requests : r.op \in ScrapeKinds)

\* a second quick scrape is in flight after the first has resolved, while
\* the status clear of the first is pending
OneScrapeInFlightWitness ==
    /\ started = 2
    /\ scrapingLoading
    /\ \E r \in requests : r.op = "quick"
    /\ timers[QuickClearDelay] > 0

\* C30: a status mutation that succeeds issues GET /deals?limit=20, and
\* when a deals request succeeds the vehicle list becomes its response: no
\* vehicle of the list before, from a search or a scrape, that the response
\* lacks stays in the list.
UpdateReloadReplacesList ==
    [][\A r \in requests \ requests' :
          /\ UpdateVehicleStatusResolve(r, TRUE) =>
                \E n \in requests' \ requests :
                    /\ n.op = "loadDeals" /\ n.path = "/deals"
                    /\ n.query = <<"l", "i", "m", "i", "t", "=", "2", "0">>
          /\ \A data \in DealsPayloads :
                LoadDealsResolve(r, TRUE, data) =>
                    /\ vehicles' = data
                    /\ \A i \in 1..Len(vehicles) :
                          (\A j \in 1..Len(data) : data[j] # vehicles[i])
                          => \A k \in 1..Len(vehicles') : vehicles'[k] # vehicles[i]]_vars

\* the user has searched and set the status of the result shown; the reload
\* that followed, which overlapped no other response, has put the two deals
\* in place of the search result
UpdateReloadReplacesListWitness ==
    /\ started = 2
    /\ nextId = MountRequests + 4
    /\ \A r \in requests : r.op \notin {"loadDeals", "search", "updateVehicleStatus"}
    /\ applied # Null
    /\ applied[1].before = <<D3.id>>
    /\ ~applied[1].overlapped
    /\ applied[1].result = <<D1, D2>>
    /\ vehicles = <<D1, D2>>

====
